---- MODULE Spec2Model ----
(***************************************************************************)
(* Model of the asynchronous SDK installer/remover of xds-server           *)
(* (lib/xdsserver/sdk.go).  One CrossSDK instance, one API caller whose    *)
(* inputs are executed statement group by statement group, and the          *)
(* goroutines of the eows job supervisor that run the output and exit      *)
(* callbacks concurrently with the caller.                                 *)
(***************************************************************************)
EXTENDS Integers, Sequences, FiniteSets, TLC

\* ------------------------------------------------------------------ bounds
\* number of inputs in one behaviour: the API inputs (Install,
\* AbortInstallRemove, Remove) and the output callbacks of the jobs
MaxInputs == 3
\* value of XDS_SDK_BUF_STDOUT in the modelled environment
SizeBufStdout == 2
\* value of XDS_SDK_BUF_STDERR in the modelled environment
SizeBufStderr == 1
\* number of inputs that follow a re-install
MaxDrainInputs == 1
\* number of SDK instances on which Install is called concurrently
NumInstances == 3
\* number of calls of NewCrossSDK in one behaviour
MaxNewSDKs == 2
\* number of entries of the catalog file read by db-dump
MaxCatalog == 2
\* number of environment-setup files found by the scan of db-dump
MaxFound == 2
\* ConfigService: the project ids in use, the operations started, and how
\* many of them are reloads
MaxProjects == 2
MaxConfigOps == 3
MaxLoads == 1

\* ------------------------------------------------------- program constants
SdkStatusNotInstalled == "Not Installed"
SdkStatusInstalling == "Installing"
SdkStatusUninstalling == "Un-installing"
SdkStatusInstalled == "Installed"

ErrAlreadyInstalled == "already installed"
ErrInstallInProgress == "installation in progress"
ErrNoInstallInProgress == "no installation in progress for this sdk"
ErrNotInstalled == "this sdk is not installed"
ErrProcessStart == "Process start error"
ErrSignal == "os: process already finished"
ErrRemoveScript == "Error while uninstalling sdk"
ErrNilDeref == "panic: nil pointer dereference"

\* no error (Go nil error); also the result of a call that has not returned
NoErr == ""
Pending == "pending"

VARIABLES
    sdk,        \* s.sdk: the stored SDK record
    installCmd, \* s.installCmd: 0 is nil, else the job the handle refers to
    bufStdout,  \* s.bufStdout
    bufStderr,  \* s.bufStderr
    sdkCmdID,   \* the process-wide command id counter
    jobs,       \* the eows jobs created so far, by creation order
    connected,  \* whether sessions.IOSocketGet(sid) finds a socket
    events,     \* the progress events emitted on the socket, in order
    inputs,     \* number of API inputs and output callbacks so far
    pc,         \* position of the API caller
    ret,        \* the call the caller made last and what it returned
    callers,    \* concurrent Install calls on different instances
    allocated,  \* the command ids taken by those calls, in order
    rawSdk,     \* the record NewCrossSDK was last called with
    newSdk,     \* the number of calls of NewCrossSDK and what the last one
                \* returned: the instance record, the error
    seenIDs,    \* the <<name, id>> pairs of the instances created so far
    catalog,    \* db-dump: the parsed content of sdks_latest.json
    found,      \* db-dump: the environment-setup files find printed
    sdks,       \* db-dump: the sdks array
    scanned,    \* db-dump: the number of find lines processed so far
    dumpPc,     \* db-dump: position of the script
    projects,   \* ConfigService: the ids of confStore.projects, in order
    requests    \* ConfigService: the operations started so far and the
                \* request each one is waiting for

\* the variables of the installer of one instance, of the allocation of
\* command ids, of NewCrossSDK, of the db-dump script and of the browser-side
\* ConfigService
installerVars == <<sdk, installCmd, bufStdout, bufStderr, sdkCmdID, jobs,
                   connected, events, inputs, pc, ret>>
cmdIDVars == <<callers, allocated>>
validatorVars == <<rawSdk, newSdk, seenIDs>>
dbDumpVars == <<catalog, found, sdks, scanned, dumpPc>>
configVars == <<projects, requests>>

vars == <<installerVars, cmdIDVars, validatorVars, dbDumpVars, configVars>>

\* every job is created by an Install call
Jobs == 1..MaxInputs

\* ------------------------------------------------------------ NewCrossSDK
\* the files of the modelled filesystem, as common.Exists sees them
ExistingPaths == {"/xdt/sdk", "/xdt/sdk/env"}
Exists(p) == p \in ExistingPaths

\* sdk.go 46-52: the scripts a family directory must hold
scriptsAll == {"add", "get-config", "list", "remove", "update"}

\* a family directory whose get-config script prints a valid configuration
GoodFamily ==
    [Scripts |-> scriptsAll, RootDir |-> "/xdt/sdk",
     EnvSetupFile |-> "environment-setup*"]

\* the family directories NewCrossSDK is called with
Families ==
    { GoodFamily,
      [GoodFamily EXCEPT !.Scripts = scriptsAll \ {"get-config"}],
      [GoodFamily EXCEPT !.RootDir = ""],
      [GoodFamily EXCEPT !.Scripts = scriptsAll \ {"remove"}] }

\* sdk.go 95-128: the error of the family part of NewCrossSDK, NoErr when
\* the configuration is valid and the scripts are present
FamilyErr(fam) ==
    IF "get-config" \notin fam.Scripts
    THEN "'get-config' script file not found"
    ELSE IF fam.RootDir = "" THEN "SDK config not valid (rootDir not set)"
    ELSE IF fam.EnvSetupFile = ""
         THEN "SDK config not valid (envSetupFile not set)"
    ELSE IF ~(scriptsAll \subseteq fam.Scripts)
         THEN "Script missing in SDK family"
    ELSE NoErr

\* raw records as the agl family's list script prints them
RawSDKs ==
    { [Name |-> "agl-aarch64-7.0.0", Profile |-> "agl", Version |-> "7.0.0",
       Arch |-> "aarch64", Status |-> SdkStatusNotInstalled,
       LastError |-> "", Path |-> "", SetupFile |-> "", ID |-> ""],
      [Name |-> "agl-aarch64-7.0.0", Profile |-> "agl", Version |-> "7.0.0",
       Arch |-> "aarch64", Status |-> SdkStatusInstalled,
       LastError |-> "", Path |-> "/xdt/sdk", SetupFile |-> "/xdt/sdk/env",
       ID |-> ""] }

\* the raw records NewCrossSDK is called with: decoded JSON objects with
\* or without a name, a key field, a status, an old error, and with a path
\* and a setup file that are absent, present or not on the filesystem
RawInputs ==
    { [Name |-> n, Profile |-> k[1], Version |-> k[2], Arch |-> k[3],
       Status |-> st, LastError |-> le, Path |-> loc[1],
       SetupFile |-> loc[2], ID |-> ""] :
        n \in {"", "agl-aarch64-7.0.0", "agl-x86-64-7.0.0"},
        k \in { <<"agl", "7.0.0", "aarch64">>, <<"", "7.0.0", "aarch64">>,
                <<"agl", "", "aarch64">>, <<"agl", "7.0.0", "">> },
        st \in {"", SdkStatusNotInstalled, SdkStatusInstalled},
        le \in {"", "Installation failed (code 1)"},
        loc \in { <<"", "">>, <<"/xdt/sdk", "/xdt/sdk/env">>,
                  <<"/xdt/sdk", "">>, <<"", "/xdt/sdk/env">>,
                  <<"/xdt/gone", "/xdt/sdk/env">>,
                  <<"/xdt/sdk", "/xdt/gone/env">> } }

\* the family directories and raw records NewCrossSDK is called with
NewCrossSDKInputs ==
    (Families \X {CHOOSE r \in RawSDKs : TRUE}) \cup ({GoodFamily} \X RawInputs)

\* sdk.go 130-158: the validation of NewCrossSDK, made on the parameter
\* after the defaults were applied to it: the error it returns, NoErr when
\* it accepts
NewCrossSDKErr(raw) ==
    LET st == IF raw.Status = "" THEN SdkStatusNotInstalled ELSE raw.Status
    IN  IF raw.Name = "" THEN "Invalid SDK definition (name not set)"
        ELSE IF raw.Profile = ""
             THEN "Invalid SDK definition (profile not set)"
        ELSE IF raw.Version = ""
             THEN "Invalid SDK definition (version not set)"
        ELSE IF raw.Arch = "" THEN "Invalid SDK definition (arch not set)"
        ELSE IF st = SdkStatusInstalled /\ raw.SetupFile = ""
             THEN "Invalid SDK definition (setupFile not set)"
        ELSE IF st = SdkStatusInstalled /\ ~Exists(raw.SetupFile)
             THEN "Invalid SDK definition (setupFile not accessible)"
        ELSE IF st = SdkStatusInstalled /\ raw.Path = ""
             THEN "Invalid SDK definition (path not set)"
        ELSE IF st = SdkStatusInstalled /\ ~Exists(raw.Path)
             THEN "Invalid SDK definition (path not accessible)"
        ELSE NoErr

\* uuid.FromStringOrNil("sdks"): "sdks" is no UUID, the result is uuid.Nil
UuidNil == "00000000-0000-0000-0000-000000000000"

\* uuid.NewV3: the MD5 of the namespace and the name, given by what it is
\* computed from
UuidV3(ns, name) == <<"md5", ns, name>>

\* the id derived from the name and the status
SdkID_WithStatus(rec) == UuidV3(UuidNil, rec.Name \o "_" \o rec.Status)

\* sdk.go 160-165: the id of the stored record
SdkID(rec) ==
    LET nm == IF rec.Name = ""
              THEN rec.Profile \o "_" \o rec.Arch \o "_" \o rec.Version
              ELSE rec.Name
    IN  UuidV3(UuidNil, nm)

\* sdk.go 88-93, 130-134, 160-167: the record NewCrossSDK leaves in s.sdk
\* for a valid family.  s.sdk is a copy of the parameter made at line 90;
\* the defaults of lines 131-134 are applied to the parameter afterwards,
\* and only the id is written to s.sdk.
NewCrossSDK(raw) ==
    IF NewCrossSDKErr(raw) = NoErr THEN [raw EXCEPT !.ID = SdkID(raw)]
    ELSE raw

\* ------------------------------------------------------------------ jobs
\* st: "unused", "new" (created by eows.New), "failed" (Start returned an
\*     error), "running", "cleanup" (the exit callback has emitted the
\*     terminal event and not yet released the handle), "done"
\* killed: SIGKILL was delivered to the running process
\* code, err, sock: exit code, process error and whether the socket was
\*     found, as the exit callback saw them
\* aborted: the state of the job when AbortInstallRemove found its handle
\* lost: an output callback of the job found no socket
\* dropped: the bytes of the job given to such callbacks
\* alone: no other job of the instance was active during the life of the job
NoJob == [st |-> "unused", cmdID |-> 0, killed |-> FALSE, code |-> 0,
          err |-> NoErr, sock |-> FALSE, nOut |-> 0, nErr |-> 0,
          aborted |-> "no", lost |-> FALSE, alone |-> TRUE, dropped |-> {}]

\* number of jobs created so far
NumJobs == Cardinality({j \in Jobs : jobs[j].st # "unused"})

\* the k-th byte job j wrote on a stream
Byte(j, stream, k) == <<j, stream, k>>

\* the n bytes job j writes on a stream after the first `from`
Chunk(j, stream, from, n) == [k \in 1..n |-> Byte(j, stream, from + k)]

\* strconv.Itoa on the exit codes of the model
Itoa(n) == IF n = 0 THEN "0" ELSE IF n = 1 THEN "1" ELSE "-1"

\* how a job can end: exit code and process error
ExitOutcomes == { <<0, NoErr>>, <<1, NoErr>>, <<0, "Exit Timeout">> }

\* the (stdout, stderr) byte counts of one output callback: a chunk that
\* stays under the thresholds and chunks that exceed one of them
ChunkSizes == { <<1, 0>>, <<SizeBufStdout + 1, 0>>, <<0, SizeBufStderr + 1>> }

\* the SDK instances whose Install calls run concurrently
Instances == 1..NumInstances

\* an Install call that has not reached the allocation of its command id
NoCall == [pc |-> "idle", reg |-> 0, id |-> 0]

\* no Install call has taken a command id
CmdIDInit ==
    /\ callers = [i \in Instances |-> NoCall]
    /\ allocated = <<>>

\* NewCrossSDK has not been called
ValidatorInit ==
    /\ rawSdk = [fam |-> GoodFamily, sdk |-> CHOOSE r \in RawSDKs : TRUE]
    /\ newSdk = [calls |-> 0, sdk |-> rawSdk.sdk, err |-> NoErr]
    /\ seenIDs = {}

\* the installer's variables but the command id counter
instanceVars == <<sdk, installCmd, bufStdout, bufStderr, jobs, connected,
                  events, inputs, pc, ret>>

\* ConfigService (the browser side): the project ids, the operations
ProjectIDs == 1..MaxProjects
Requests == 1..MaxConfigOps

\* an operation not started yet; a started one records the request it waits
\* for (stage), the project id it was called with, the index deleteProject
\* computed and the answer of xdsServerSvr.getProjects
NoRequest ==
    [op |-> "none", stage |-> "none", id |-> 0, idx |-> 0, remote |-> <<>>]

\* confStore as load() builds it: no project, and nothing requested
ConfigInit ==
    /\ projects = <<>>
    /\ requests = [r \in Requests |-> NoRequest]

\* the db-dump script does not run
DbDumpIdle ==
    /\ catalog = <<>>
    /\ found = <<>>
    /\ sdks = <<>>
    /\ scanned = 0
    /\ dumpPc = "idle"

\* an instance NewCrossSDK accepted, nothing installing
InstallerInit ==
    /\ \E raw \in RawSDKs :
         NewCrossSDKErr(raw) = NoErr /\ sdk = NewCrossSDK(raw)
    /\ installCmd = 0
    /\ bufStdout = <<>>
    /\ bufStderr = <<>>
    /\ sdkCmdID = 0
    /\ jobs = [j \in Jobs |-> NoJob]
    /\ connected = TRUE
    /\ events = <<>>
    /\ inputs = 0
    /\ pc = "idle"
    /\ ret = [op |-> "none", err |-> NoErr]

Init == InstallerInit /\ CmdIDInit /\ ValidatorInit /\ DbDumpIdle
    /\ ConfigInit

\* one instance that nothing is called on
InstallerRest == InstallerInit /\ sdk.Status = SdkStatusNotInstalled

\* ---------------------------------------------------------------- Install
\* the precondition checks without the test of line 175
InstallCheck_NoInstalledTest(status) ==
    IF status = SdkStatusInstalling THEN ErrInstallInProgress ELSE NoErr

\* sdk.go 175-180: the precondition checks, NoErr when they pass
InstallCheck(status) ==
    IF status = SdkStatusInstalled THEN ErrAlreadyInstalled
    ELSE IF status = SdkStatusInstalling THEN ErrInstallInProgress
    ELSE NoErr

\* sdk.go 173-349: the checks, then the command id, eows.New, the buffers
\* reset and the callbacks registered
Install ==
    /\ pc = "idle"
    /\ inputs < MaxInputs
    /\ NumJobs < Cardinality(Jobs)
    /\ inputs' = inputs + 1
    /\ IF InstallCheck(sdk.Status) # NoErr
       THEN /\ ret' = [op |-> "Install", err |-> InstallCheck(sdk.Status)]
            /\ pc' = "idle"
            /\ UNCHANGED <<installCmd, bufStdout, bufStderr, sdkCmdID, jobs>>
       ELSE LET j == NumJobs + 1
                others == \E k \in Jobs : jobs[k].st \in {"running", "cleanup"}
            IN  /\ sdkCmdID' = sdkCmdID + 1
                /\ jobs' = [k \in Jobs |->
                             IF k = j
                             THEN [NoJob EXCEPT !.st = "new",
                                                !.cmdID = sdkCmdID + 1,
                                                !.alone = ~others]
                             ELSE IF jobs[k].st \in {"running", "cleanup"}
                             THEN [jobs[k] EXCEPT !.alone = FALSE]
                             ELSE jobs[k]]
                /\ installCmd' = j
                /\ bufStdout' = <<>>
                /\ bufStderr' = <<>>
                /\ ret' = [op |-> "Install", err |-> Pending]
                /\ pc' = "install_start"
    /\ UNCHANGED <<sdk, connected, events>>
    /\ UNCHANGED <<cmdIDVars, validatorVars, dbDumpVars,
                 configVars>>

\* sdk.go 354-359: status set, s.installCmd.Start(), return
InstallStart ==
    /\ pc = "install_start"
    /\ pc' = "idle"
    /\ sdk' = [sdk EXCEPT !.Status = SdkStatusInstalling, !.LastError = ""]
    /\ IF installCmd = 0
       THEN /\ ret' = [op |-> "Install", err |-> ErrNilDeref]
            /\ jobs' = jobs
       ELSE \E ok \in BOOLEAN :
              IF ok
              THEN /\ jobs' = [jobs EXCEPT ![installCmd].st = "running"]
                   /\ ret' = [op |-> "Install", err |-> NoErr]
              ELSE /\ jobs' = [jobs EXCEPT ![installCmd].st = "failed"]
                   /\ ret' = [op |-> "Install", err |-> ErrProcessStart]
    /\ UNCHANGED <<installCmd, bufStdout, bufStderr, sdkCmdID, connected,
                   events, inputs>>
    /\ UNCHANGED <<cmdIDVars, validatorVars, dbDumpVars,
                 configVars>>

\* ------------------------------------------------------- job supervisor
\* a progress event (xsapiv1.SDKManagementMsg), the timestamp left out
Event(cmdID, rec, progress, exited, stdout, stderr, code, error) ==
    [CmdID |-> cmdID, Sdk |-> rec, Progress |-> progress, Exited |-> exited,
     Stdout |-> stdout, Stderr |-> stderr, Code |-> code, Error |-> error]

\* the socket given by a lookup made once, when the job was created
IOSocketGet_Cached(conn) == TRUE

\* sdk.go 232, 283: s.sessions.IOSocketGet(e.Sid), called by every callback:
\* whether the session has a socket now
IOSocketGet(conn) == conn

\* the threshold test emitting buffers that have reached a threshold
OverThreshold_AtThreshold(out, err) ==
    Len(out) >= SizeBufStdout \/ Len(err) >= SizeBufStderr

\* sdk.go 252: whether the output callback emits the buffers
OverThreshold(out, err) ==
    Len(out) > SizeBufStdout \/ Len(err) > SizeBufStderr

\* sdk.go 223-269: the output callback of job j, called with a bytes of
\* stdout and b bytes of stderr
OutputCB(j, a, b) ==
    /\ jobs[j].st = "running"
    /\ inputs < MaxInputs
    /\ inputs' = inputs + 1
    /\ jobs' = [jobs EXCEPT
                  ![j].nOut = @ + a, ![j].nErr = @ + b,
                  ![j].lost = @ \/ ~connected,
                  ![j].dropped =
                      IF connected THEN @
                      ELSE @ \cup {Byte(j, "stdout", jobs[j].nOut + k) :
                                       k \in 1..a}
                             \cup {Byte(j, "stderr", jobs[j].nErr + k) :
                                       k \in 1..b}]
    /\ LET newOut == bufStdout \o Chunk(j, "stdout", jobs[j].nOut, a)
           newErr == bufStderr \o Chunk(j, "stderr", jobs[j].nErr, b)
       IN  IF ~IOSocketGet(connected)
           THEN UNCHANGED <<bufStdout, bufStderr, events>>
           ELSE IF OverThreshold(newOut, newErr)
           THEN /\ events' = Append(events,
                       Event(jobs[j].cmdID, sdk, 0, FALSE,
                             newOut, newErr, 0, ""))
                /\ bufStdout' = <<>>
                /\ bufStderr' = <<>>
           ELSE /\ bufStdout' = newOut
                /\ bufStderr' = newErr
                /\ events' = events
    /\ UNCHANGED <<sdk, installCmd, sdkCmdID, connected, pc, ret>>
    /\ UNCHANGED <<cmdIDVars, validatorVars, dbDumpVars,
                 configVars>>

\* sdk.go 312-316: the message stored in LastError for a failed installation
FailureMsg(code, err) ==
    IF err # NoErr THEN ". Error: " \o err
    ELSE "Installation failed (code " \o Itoa(code) \o ")"

\* the status update deciding on the exit code alone
ExitStatus_CodeOnly(rec, code, err) ==
    IF code = 0
    THEN [rec EXCEPT !.LastError = "", !.Status = SdkStatusInstalled]
    ELSE [rec EXCEPT !.LastError = FailureMsg(code, err),
                     !.Status = SdkStatusNotInstalled]

\* sdk.go 307-318: the record after the status update of the exit callback
ExitStatus(rec, code, err) ==
    IF code = 0 /\ err = NoErr
    THEN [rec EXCEPT !.LastError = "", !.Status = SdkStatusInstalled]
    ELSE [rec EXCEPT !.LastError = FailureMsg(code, err),
                     !.Status = SdkStatusNotInstalled]

\* the error string taken from the process error alone
EmitErr_ProcessOnly(err, lastError) == err

\* sdk.go 320-326: the error string of the terminal event
EmitErr(err, lastError) ==
    IF err # NoErr THEN err ELSE lastError

\* the final flush testing the stderr buffer only
ExitFlush_StderrOnly(cmdID, rec, out, err) ==
    IF Len(err) > 0
    THEN <<Event(cmdID, rec, 50, FALSE, out, err, 0, "")>>
    ELSE <<>>

\* sdk.go 289-305: the events of the final flush of the buffers
ExitFlush(cmdID, rec, out, err) ==
    IF Len(err) > 0 \/ Len(out) > 0
    THEN <<Event(cmdID, rec, 50, FALSE, out, err, 0, "")>>
    ELSE <<>>

\* the terminal event without the exited flag
ExitEvent_NotExited(cmdID, rec, code, err) ==
    Event(cmdID, rec, 100, FALSE, <<>>, <<>>, code, EmitErr(err, rec.LastError))

\* sdk.go 328-337: the terminal event
ExitEvent(cmdID, rec, code, err) ==
    Event(cmdID, rec, 100, TRUE, <<>>, <<>>, code, EmitErr(err, rec.LastError))

\* sdk.go 272-340: the exit callback of job j, called with the exit code
\* and the process error, up to the terminal event.  A process that was
\* killed does not end in success.
ExitCB(j, code, err) ==
    /\ jobs[j].st = "running"
    /\ jobs[j].killed => ~(code = 0 /\ err = NoErr)
    /\ IF ~IOSocketGet(connected)
       THEN /\ jobs' = [jobs EXCEPT ![j].st = "done", ![j].code = code,
                                    ![j].err = err, ![j].sock = FALSE]
            /\ UNCHANGED <<sdk, bufStdout, bufStderr, events>>
       ELSE /\ events' = events
                    \o ExitFlush(jobs[j].cmdID, sdk, bufStdout, bufStderr)
                    \o <<ExitEvent(jobs[j].cmdID, ExitStatus(sdk, code, err),
                                   code, err)>>
            /\ bufStdout' = <<>>
            /\ bufStderr' = <<>>
            /\ sdk' = ExitStatus(sdk, code, err)
            /\ jobs' = [jobs EXCEPT ![j].st = "cleanup", ![j].code = code,
                                    ![j].err = err, ![j].sock = TRUE]
    /\ UNCHANGED <<installCmd, sdkCmdID, connected, inputs, pc, ret>>
    /\ UNCHANGED <<cmdIDVars, validatorVars, dbDumpVars,
                 configVars>>

\* sdk.go 342-343: the exit callback of job j releases the handle
ExitCBCleanup(j) ==
    /\ jobs[j].st = "cleanup"
    /\ installCmd' = 0
    /\ jobs' = [jobs EXCEPT ![j].st = "done"]
    /\ UNCHANGED <<sdk, bufStdout, bufStderr, sdkCmdID, connected,
                   events, inputs, pc, ret>>
    /\ UNCHANGED <<cmdIDVars, validatorVars, dbDumpVars,
                 configVars>>

\* ----------------------------------------------------- AbortInstallRemove
\* sdk.go 363-369: the check of the handle and the status set
AbortInstallRemove ==
    /\ pc = "idle"
    /\ inputs < MaxInputs
    /\ inputs' = inputs + 1
    /\ IF installCmd = 0
       THEN /\ ret' = [op |-> "AbortInstallRemove",
                        err |-> ErrNoInstallInProgress]
            /\ pc' = "idle"
            /\ UNCHANGED <<sdk, jobs>>
       ELSE /\ sdk' = [sdk EXCEPT !.Status = SdkStatusNotInstalled]
            /\ jobs' = [jobs EXCEPT ![installCmd].aborted = jobs[installCmd].st]
            /\ ret' = [op |-> "AbortInstallRemove", err |-> Pending]
            /\ pc' = "abort_signal"
    /\ UNCHANGED <<installCmd, bufStdout, bufStderr, sdkCmdID, connected,
                   events>>
    /\ UNCHANGED <<cmdIDVars, validatorVars, dbDumpVars,
                 configVars>>

\* sdk.go 370: s.installCmd.Signal("SIGKILL").  The signal reaches a running
\* process, or the process had ended by itself and Signal returns an error.
AbortSignal ==
    /\ pc = "abort_signal"
    /\ pc' = "idle"
    /\ IF installCmd = 0
       THEN /\ ret' = [op |-> "AbortInstallRemove", err |-> ErrNilDeref]
            /\ jobs' = jobs
       ELSE \/ /\ jobs[installCmd].st = "running"
               /\ jobs' = [jobs EXCEPT ![installCmd].killed = TRUE]
               /\ ret' = [op |-> "AbortInstallRemove", err |-> NoErr]
            \/ /\ jobs' = jobs
               /\ ret' = [op |-> "AbortInstallRemove", err |-> ErrSignal]
    /\ UNCHANGED <<sdk, installCmd, bufStdout, bufStderr, sdkCmdID, connected,
                   events, inputs>>
    /\ UNCHANGED <<cmdIDVars, validatorVars, dbDumpVars,
                 configVars>>

\* ----------------------------------------------------------------- Remove
\* the precondition check letting an SDK that is installing through
RemoveCheck_InstallingAllowed(status) ==
    IF status \notin {SdkStatusInstalled, SdkStatusInstalling}
    THEN ErrNotInstalled ELSE NoErr

\* sdk.go 376-378: the precondition check, NoErr when it passes
RemoveCheck(status) ==
    IF status # SdkStatusInstalled THEN ErrNotInstalled ELSE NoErr

\* sdk.go 374-384: the check, the status set, the remove script launched
Remove ==
    /\ pc = "idle"
    /\ inputs < MaxInputs
    /\ inputs' = inputs + 1
    /\ IF RemoveCheck(sdk.Status) # NoErr
       THEN /\ ret' = [op |-> "Remove", err |-> RemoveCheck(sdk.Status)]
            /\ pc' = "idle"
            /\ sdk' = sdk
       ELSE /\ sdk' = [sdk EXCEPT !.Status = SdkStatusUninstalling]
            /\ ret' = [op |-> "Remove", err |-> Pending]
            /\ pc' = "remove_script"
    /\ UNCHANGED <<installCmd, bufStdout, bufStderr, sdkCmdID, jobs,
                   connected, events>>
    /\ UNCHANGED <<cmdIDVars, validatorVars, dbDumpVars,
                 configVars>>

\* sdk.go 384-390: the remove script has ended, Remove returns
RemoveReturn ==
    /\ pc = "remove_script"
    /\ pc' = "idle"
    /\ \E ok \in BOOLEAN :
         ret' = [op |-> "Remove", err |-> IF ok THEN NoErr ELSE ErrRemoveScript]
    /\ UNCHANGED <<sdk, installCmd, bufStdout, bufStderr, sdkCmdID, jobs,
                   connected, events, inputs>>
    /\ UNCHANGED <<cmdIDVars, validatorVars, dbDumpVars,
                 configVars>>

\* ---------------------------------------------------------------- session
\* the websocket of the session closes: IOSocketGet returns nil from now on
Disconnect ==
    /\ connected
    /\ connected' = FALSE
    /\ UNCHANGED <<sdk, installCmd, bufStdout, bufStderr, sdkCmdID, jobs,
                   events, inputs, pc, ret>>
    /\ UNCHANGED <<cmdIDVars, validatorVars, dbDumpVars,
                 configVars>>

\* the client connects again under the same session id
Reconnect ==
    /\ ~connected
    /\ connected' = TRUE
    /\ UNCHANGED <<sdk, installCmd, bufStdout, bufStderr, sdkCmdID, jobs,
                   events, inputs, pc, ret>>
    /\ UNCHANGED <<cmdIDVars, validatorVars, dbDumpVars,
                 configVars>>

Next ==
    \/ Install
    \/ InstallStart
    \/ AbortInstallRemove
    \/ AbortSignal
    \/ Remove
    \/ RemoveReturn
    \/ \E j \in Jobs : \E c \in ChunkSizes : OutputCB(j, c[1], c[2])
    \/ \E j \in Jobs : \E o \in ExitOutcomes : ExitCB(j, o[1], o[2])
    \/ \E j \in Jobs : ExitCBCleanup(j)
    \/ Disconnect
    \/ Reconnect

Spec == Init /\ [][Next]_vars

\* ------------------------------------------------------------ re-install
\* The instance after Install, AbortInstallRemove and Install again, each
\* call returned: the job of the first call was running when it was
\* aborted and its exit callback has not run, whether the signal reached
\* it or not; the job of the second call runs.  MaxDrainInputs inputs
\* follow.
InitReinstall ==
    /\ \E raw \in RawSDKs :
         /\ raw.Status = SdkStatusNotInstalled
         /\ sdk = [NewCrossSDK(raw) EXCEPT !.Status = SdkStatusInstalling]
    /\ installCmd = 2
    /\ bufStdout = <<>>
    /\ bufStderr = <<>>
    /\ sdkCmdID = 2
    /\ \E k \in BOOLEAN :
         jobs = [j \in Jobs |->
                  IF j = 1
                  THEN [NoJob EXCEPT !.st = "running", !.cmdID = 1,
                                     !.killed = k, !.aborted = "running",
                                     !.alone = FALSE]
                  ELSE IF j = 2
                  THEN [NoJob EXCEPT !.st = "running", !.cmdID = 2,
                                     !.alone = FALSE]
                  ELSE NoJob]
    /\ connected = TRUE
    /\ events = <<>>
    /\ inputs = MaxInputs - MaxDrainInputs
    /\ pc = "idle"
    /\ ret = [op |-> "Install", err |-> NoErr]
    /\ CmdIDInit /\ ValidatorInit /\ DbDumpIdle /\ ConfigInit

SpecReinstall == InitReinstall /\ [][Next]_vars

\* ================================================================ claims
\* ------------------------------------- command ids on several instances
\* sdk.go 194: Install on instance i reads the counter to increment it
CmdIDLoad(i) ==
    /\ callers[i].pc = "idle"
    /\ callers' = [callers EXCEPT ![i].pc = "loaded", ![i].reg = sdkCmdID]
    /\ UNCHANGED <<sdkCmdID, allocated>>
    /\ UNCHANGED <<instanceVars, validatorVars, dbDumpVars,
                 configVars>>

\* sdk.go 194: Install on instance i writes the incremented value
CmdIDStore(i) ==
    /\ callers[i].pc = "loaded"
    /\ sdkCmdID' = callers[i].reg + 1
    /\ callers' = [callers EXCEPT ![i].pc = "stored"]
    /\ UNCHANGED allocated
    /\ UNCHANGED <<instanceVars, validatorVars, dbDumpVars,
                 configVars>>

\* sdk.go 195: Install on instance i reads the counter for its command id
CmdIDUse(i) ==
    /\ callers[i].pc = "stored"
    /\ callers' = [callers EXCEPT ![i].pc = "done", ![i].id = sdkCmdID]
    /\ allocated' = Append(allocated, sdkCmdID)
    /\ UNCHANGED sdkCmdID
    /\ UNCHANGED <<instanceVars, validatorVars, dbDumpVars,
                 configVars>>

NextCmdID ==
    \/ \E i \in Instances : CmdIDLoad(i)
    \/ \E i \in Instances : CmdIDStore(i)
    \/ \E i \in Instances : CmdIDUse(i)

\* Install called concurrently on the instances, none synchronised with
\* another: the accesses to the counter interleave
InitCmdID == InstallerRest /\ CmdIDInit /\ ValidatorInit /\ DbDumpIdle
    /\ ConfigInit

SpecCmdID == InitCmdID /\ [][NextCmdID]_vars

\* ------------------------------------------------- calls of NewCrossSDK
\* sdk.go 87-170: NewCrossSDK called with a family directory and a raw
\* record; the instance is returned with the error
NewCrossSDKCall(fam, raw) ==
    /\ newSdk.calls < MaxNewSDKs
    /\ rawSdk' = [fam |-> fam, sdk |-> raw]
    /\ LET ferr == FamilyErr(fam)
           err == IF ferr # NoErr THEN ferr ELSE NewCrossSDKErr(raw)
           rec == IF ferr # NoErr THEN raw ELSE NewCrossSDK(raw)
       IN  /\ newSdk' = [calls |-> newSdk.calls + 1, sdk |-> rec,
                         err |-> err]
           /\ seenIDs' = IF err = NoErr
                         THEN seenIDs \cup {<<raw.Name, raw.Status, rec.ID>>}
                         ELSE seenIDs
    /\ UNCHANGED <<installerVars, cmdIDVars, dbDumpVars,
                 configVars>>

NextNew ==
    \E arg \in NewCrossSDKInputs : NewCrossSDKCall(arg[1], arg[2])

InitNew == InstallerRest /\ CmdIDInit /\ ValidatorInit /\ DbDumpIdle
    /\ ConfigInit

SpecNew == InitNew /\ [][NextNew]_vars

\* ------------------------------------------------------- db-dump script
\* Strings the script cuts into pieces are sequences: a path is the
\* sequence of its segments (the leading "" stands for the root), a date
\* and a timestamp are sequences of characters.  A property the JSON does
\* not hold is the empty sequence, which is what the server decodes it to.

\* the versions of the SDKs of the catalog and of the filesystem
Versions == {"7.0.0", "8.0.0", "9.0.0"}

\* the date of the entries of the catalog file: "2017-06-01"
CatalogDate == <<"2", "0", "1", "7", "-", "0", "6", "-", "0", "1">>

\* the entries of sdks_latest.json, with or without a status
CatalogEntries ==
    { [name |-> "agl-aarch64-" \o v, profile |-> "agl", version |-> v,
       arch |-> "aarch64", path |-> <<>>, status |-> st,
       date |-> CatalogDate, setupFile |-> <<>>, data |-> <<>>] :
        v \in Versions, st \in {"", "Installed"} }

\* the output of `grep Timestamp version-* | cut -d' ' -f2` for a version
\* file stamped 2017-06-16 08:26:10
Stamp ==
    <<"2", "0", "1", "7", "0", "6", "1", "6", "0", "8", "2", "6", "1", "0",
      "\n">>

\* the environment-setup file of the SDK of version v under SDK_ROOT_DIR
EnvFileOf(v) ==
    <<"", "xdt", "sdk", "agl", v, "aarch64", "environment-setup-aarch64">>

\* what the scan finds: an environment-setup file, whether its directory
\* holds a version file and what the grep of the timestamp printed
Installs ==
    { [envFile |-> EnvFileOf(v), hasVersion |-> h[1], stamp |-> h[2]] :
        v \in Versions,
        h \in { <<FALSE, <<>> >>, <<TRUE, <<>> >>, <<TRUE, Stamp>> } }

\* the sequences of at most n elements of S
SeqsUpTo(S, n) == UNION { [1..k -> S] : k \in 0..n }

\* the lines find prints: every file once
FindOutputs ==
    { f \in SeqsUpTo(Installs, MaxFound) :
        \A i, k \in DOMAIN f : i # k => f[i].envFile # f[k].envFile }

\* String.prototype.substring(a, b) on a sequence of characters
Substring(d, a, b) ==
    SubSeq(d, a + 1, IF b < Len(d) THEN b ELSE Len(d))

\* db-dump 91-95: the date made of the timestamp, blank without timestamp
SdkDate(d) ==
    IF d # <<>>
    THEN Substring(d, 0, 4) \o <<"-">> \o Substring(d, 4, 6) \o <<"-">>
            \o Substring(d, 6, 8) \o <<" ">> \o Substring(d, 8, 10)
            \o <<":">> \o Substring(d, 10, 12)
    ELSE <<>>

\* path.dirname
Dirname(file) == SubSeq(file, 1, Len(file) - 1)

\* db-dump 69-71: the segment of index n (from 0) of the path, "" for
\* a path that has no such segment
Segment(file, n) == IF n + 1 \in DOMAIN file THEN file[n + 1] ELSE ""

\* the catalog loaded with the status of the file kept
LoadCatalog_KeepStatus(cat) == cat

\* db-dump 49-55: the catalog loaded, the status of every entry forced
LoadCatalog(cat) ==
    [i \in DOMAIN cat |-> [cat[i] EXCEPT !.status = "Not Installed"]]

\* db-dump 100: the test of the logical key
KeyMatches(e, profile, version, arch) ==
    profile = e.profile /\ version = e.version /\ arch = e.arch

\* db-dump 101-107: the entry updated with the local information
UpdateLocal(e, dir, envFile, sdkDate) ==
    [e EXCEPT !.path = dir, !.status = "Installed", !.data = sdkDate,
              !.setupFile = envFile]

\* db-dump 112-125: the entry made for an SDK the catalog does not list
LocalSDK(profile, version, arch, dir, envFile, sdkDate) ==
    [name |-> profile \o "-" \o arch \o "-" \o version,
     profile |-> profile, version |-> version, arch |-> arch,
     path |-> dir, status |-> "Installed", date |-> sdkDate,
     setupFile |-> envFile, data |-> <<>>]

\* the merge putting the entry of an unlisted SDK in front of the others
MergeInstall_Unshift(list, inst) ==
    LET profile == Segment(inst.envFile, 3)
        version == Segment(inst.envFile, 4)
        arch == Segment(inst.envFile, 5)
        dir == Dirname(inst.envFile)
        sdkDate == SdkDate(inst.stamp)
        isFound == \E i \in DOMAIN list :
                      KeyMatches(list[i], profile, version, arch)
        updated == [i \in DOMAIN list |->
                      IF KeyMatches(list[i], profile, version, arch)
                      THEN UpdateLocal(list[i], dir, inst.envFile, sdkDate)
                      ELSE list[i]]
    IN  IF profile = "" \/ version = "" \/ arch = "" \/ dir = <<>>
        THEN list
        ELSE IF ~inst.hasVersion THEN list
        ELSE IF isFound THEN updated
        ELSE <<LocalSDK(profile, version, arch, dir, inst.envFile,
                        sdkDate)>> \o updated

\* db-dump 65-126: the sdks array after one line of find was processed.
\* A directory without version file makes the command of line 80 fail and
\* the line is ignored.
MergeInstall(list, inst) ==
    LET profile == Segment(inst.envFile, 3)
        version == Segment(inst.envFile, 4)
        arch == Segment(inst.envFile, 5)
        dir == Dirname(inst.envFile)
        sdkDate == SdkDate(inst.stamp)
        isFound == \E i \in DOMAIN list :
                      KeyMatches(list[i], profile, version, arch)
        updated == [i \in DOMAIN list |->
                      IF KeyMatches(list[i], profile, version, arch)
                      THEN UpdateLocal(list[i], dir, inst.envFile, sdkDate)
                      ELSE list[i]]
    IN  IF profile = "" \/ version = "" \/ arch = "" \/ dir = <<>>
        THEN list
        ELSE IF ~inst.hasVersion THEN list
        ELSE IF isFound THEN updated
        ELSE Append(updated, LocalSDK(profile, version, arch, dir,
                                      inst.envFile, sdkDate))

\* the script starts with a catalog file and a filesystem
DbDumpInit ==
    /\ catalog \in SeqsUpTo(CatalogEntries, MaxCatalog)
    /\ found \in FindOutputs
    /\ sdks = <<>>
    /\ scanned = 0
    /\ dumpPc = "load"

\* db-dump 41-59: the catalog is read
DbDumpLoad ==
    /\ dumpPc = "load"
    /\ sdks' = LoadCatalog(catalog)
    /\ dumpPc' = "scan"
    /\ UNCHANGED <<catalog, found, scanned>>
    /\ UNCHANGED <<installerVars, cmdIDVars, validatorVars,
                 configVars>>

\* db-dump 65-127: one line of the output of find is processed
DbDumpScan ==
    /\ dumpPc = "scan"
    /\ scanned < Len(found)
    /\ sdks' = MergeInstall(sdks, found[scanned + 1])
    /\ scanned' = scanned + 1
    /\ UNCHANGED <<catalog, found, dumpPc>>
    /\ UNCHANGED <<installerVars, cmdIDVars, validatorVars,
                 configVars>>

\* db-dump 134-137: the array is printed, the script exits
DbDumpPrint ==
    /\ dumpPc = "scan"
    /\ scanned = Len(found)
    /\ dumpPc' = "printed"
    /\ UNCHANGED <<catalog, found, sdks, scanned>>
    /\ UNCHANGED <<installerVars, cmdIDVars, validatorVars,
                 configVars>>

NextDbDump ==
    \/ DbDumpLoad
    \/ DbDumpScan
    \/ DbDumpPrint

InitDbDump == InstallerRest /\ CmdIDInit /\ ValidatorInit /\ DbDumpInit
    /\ ConfigInit

SpecDbDump == InitDbDump /\ [][NextDbDump]_vars

\* ---------------------------------------------------------------------
\* ConfigService: addProject, deleteProject and _loadProjectFromLocalST.
\* Every subscribe callback is a step of its own: the browser runs other
\* operations and callbacks between a request and its answer.

\* the operations started so far, and the next free one
NumRequests == Cardinality({r \in Requests : requests[r].op # "none"})
NumLoads == Cardinality({r \in Requests : requests[r].op = "load"})

\* Array.prototype.findIndex on the ids, 0-based, -1 when absent
FindIndex(list, id) ==
    IF \E k \in 1..Len(list) : list[k] = id
    THEN (CHOOSE k \in 1..Len(list) :
            /\ list[k] = id
            /\ \A l \in 1..(k - 1) : list[l] # id) - 1
    ELSE -1

\* _getProjectIdx looks the id up in the list as it is now
GetProjectIdx(id) == FindIndex(projects, id)

\* Array.prototype.splice(start, 1) on a 0-based start: a negative start
\* counts from the end, a start beyond the end removes nothing
Splice(list, start) ==
    LET len == Len(list)
        from == IF start < 0
                THEN (IF len + start < 0 THEN 0 ELSE len + start)
                ELSE (IF start > len THEN len ELSE start)
    IN [k \in 1..(IF from < len THEN len - 1 ELSE len) |->
          IF k <= from THEN list[k] ELSE list[k + 1]]

\* the sequences of distinct project ids: what getProjects can answer
RemoteAnswers ==
    {q \in SeqsUpTo(ProjectIDs, MaxProjects) :
        \A k, l \in 1..Len(q) : k # l => q[k] # q[l]}

\* remotePrj.forEach: the remote projects that are also local, in remote
\* order
Matching(remotePrj, localPrj) ==
    SelectSeq(remotePrj, LAMBDA id : id \in localPrj)

\* the operation is over: its callbacks will not run again
Finished(req) ==
    [op |-> req.op, stage |-> "done", id |-> 0, idx |-> 0, remote |-> <<>>]

Started(op, id, idx) ==
    [op |-> op, stage |-> "server", id |-> id, idx |-> idx, remote |-> <<>>]

\* deleteProject(prj): the index is computed now, an unknown id throws,
\* then the server is asked to delete
DeleteProject(id) ==
    /\ NumRequests < MaxConfigOps
    /\ LET idx == GetProjectIdx(id)
       IN IF idx = -1
          THEN UNCHANGED requests
          ELSE requests' = [requests EXCEPT
                              ![NumRequests + 1] = Started("delete", id, idx)]
    /\ UNCHANGED projects
    /\ UNCHANGED <<installerVars, cmdIDVars, validatorVars, dbDumpVars>>

\* the answer of xdsServerSvr.deleteProject: on success the sync layer is
\* asked to delete, on error an alert
DeleteRemoteDone(r, ok) ==
    /\ requests[r].op = "delete"
    /\ requests[r].stage = "server"
    /\ requests' = [requests EXCEPT
                      ![r] = IF ok THEN [@ EXCEPT !.stage = "sync"]
                             ELSE Finished(@)]
    /\ UNCHANGED projects
    /\ UNCHANGED <<installerVars, cmdIDVars, validatorVars, dbDumpVars>>

\* the answer of stSvr.deleteProject: on success splice(idx, 1) with the
\* index computed when deleteProject was called
DeleteLocalDone(r, ok) ==
    /\ requests[r].op = "delete"
    /\ requests[r].stage = "sync"
    /\ projects' = IF ok THEN Splice(projects, requests[r].idx) ELSE projects
    /\ requests' = [requests EXCEPT ![r] = Finished(@)]
    /\ UNCHANGED <<installerVars, cmdIDVars, validatorVars, dbDumpVars>>

\* addProject(prj) of a SYNCTHING project: an id already in the list is
\* refused with a warning, else the server is asked to add
AddProject(id) ==
    /\ NumRequests < MaxConfigOps
    /\ IF GetProjectIdx(id) # -1
       THEN UNCHANGED requests
       ELSE requests' = [requests EXCEPT
                           ![NumRequests + 1] = Started("add", id, 0)]
    /\ UNCHANGED projects
    /\ UNCHANGED <<installerVars, cmdIDVars, validatorVars, dbDumpVars>>

\* the answer of xdsServerSvr.addProject
AddRemoteDone(r, ok) ==
    /\ requests[r].op = "add"
    /\ requests[r].stage = "server"
    /\ requests' = [requests EXCEPT
                      ![r] = IF ok THEN [@ EXCEPT !.stage = "sync"]
                             ELSE Finished(@)]
    /\ UNCHANGED projects
    /\ UNCHANGED <<installerVars, cmdIDVars, validatorVars, dbDumpVars>>

\* the answer of stSvr.addProject: on success the project is pushed
AddLocalDone(r, ok) ==
    /\ requests[r].op = "add"
    /\ requests[r].stage = "sync"
    /\ projects' = IF ok THEN Append(projects, requests[r].id) ELSE projects
    /\ requests' = [requests EXCEPT ![r] = Finished(@)]
    /\ UNCHANGED <<installerVars, cmdIDVars, validatorVars, dbDumpVars>>

\* _loadProjectFromLocalST, when the sync daemon connects: the list is
\* emptied and the server is asked for its projects
LoadConnect ==
    /\ NumRequests < MaxConfigOps
    /\ NumLoads < MaxLoads
    /\ projects' = <<>>
    /\ requests' = [requests EXCEPT
                      ![NumRequests + 1] = Started("load", 0, 0)]
    /\ UNCHANGED <<installerVars, cmdIDVars, validatorVars, dbDumpVars>>

\* the answer of xdsServerSvr.getProjects: the sync layer is asked next
LoadRemoteDone(r, remotePrj) ==
    /\ requests[r].op = "load"
    /\ requests[r].stage = "server"
    /\ requests' = [requests EXCEPT
                      ![r] = [@ EXCEPT !.stage = "sync",
                                       !.remote = remotePrj]]
    /\ UNCHANGED projects
    /\ UNCHANGED <<installerVars, cmdIDVars, validatorVars, dbDumpVars>>

\* the answer of stSvr.getProjects: the remote projects that are local too
\* are pushed, in the order of the remote answer
LoadLocalDone(r, localPrj) ==
    /\ requests[r].op = "load"
    /\ requests[r].stage = "sync"
    /\ projects' = projects \o Matching(requests[r].remote, localPrj)
    /\ requests' = [requests EXCEPT ![r] = Finished(@)]
    /\ UNCHANGED <<installerVars, cmdIDVars, validatorVars, dbDumpVars>>

NextConfig ==
    \/ \E id \in ProjectIDs : DeleteProject(id)
    \/ \E r \in Requests, ok \in BOOLEAN : DeleteRemoteDone(r, ok)
    \/ \E r \in Requests, ok \in BOOLEAN : DeleteLocalDone(r, ok)
    \/ \E id \in ProjectIDs : AddProject(id)
    \/ \E r \in Requests, ok \in BOOLEAN : AddRemoteDone(r, ok)
    \/ \E r \in Requests, ok \in BOOLEAN : AddLocalDone(r, ok)
    \/ LoadConnect
    \/ \E r \in Requests, remotePrj \in RemoteAnswers :
         LoadRemoteDone(r, remotePrj)
    \/ \E r \in Requests, localPrj \in SUBSET ProjectIDs :
         LoadLocalDone(r, localPrj)

InitConfig == InstallerRest /\ CmdIDInit /\ ValidatorInit /\ DbDumpIdle
    /\ ConfigInit

SpecConfig == InitConfig /\ [][NextConfig]_vars

\* the positions in the event log of the events carrying the command id
\* of job j, of its terminal events and of its final flushes
EventsOf(j) ==
    IF jobs[j].st = "unused" THEN {}
    ELSE {i \in DOMAIN events : events[i].CmdID = jobs[j].cmdID}
TerminalsOf(j) == {i \in EventsOf(j) : events[i].Exited}
FinalFlushesOf(j) ==
    {i \in EventsOf(j) : ~events[i].Exited /\ events[i].Progress = 50}

\* the exit callback of job j has gone past the point where it emits
Exited(j) == jobs[j].st \in {"cleanup", "done"}

\* C1: at any time at most one command is active on the instance: the
\* install jobs that were started and whose exit callback has not run yet,
\* plus the remove script when it runs, are never more than one.
C1_OneActiveCommand ==
    Cardinality({j \in Jobs : jobs[j].st = "running"})
        + (IF pc = "remove_script" THEN 1 ELSE 0) <= 1

\* C2: every run of the exit callback, whatever the exit and whether or not
\* the session is reachable, leaves status Installed with empty lastError
\* on success, NotInstalled with a non-empty lastError otherwise, and never
\* Installing.
C2_ExitCallbackSetsStatus ==
    [][\A j \in Jobs : \A o \in ExitOutcomes :
         ExitCB(j, o[1], o[2]) =>
            /\ sdk'.Status # SdkStatusInstalling
            /\ (o[1] = 0 /\ o[2] = NoErr) =>
                   (sdk'.Status = SdkStatusInstalled /\ sdk'.LastError = "")
            /\ ~(o[1] = 0 /\ o[2] = NoErr) =>
                   (sdk'.Status = SdkStatusNotInstalled /\ sdk'.LastError # "")
      ]_vars

\* C3: when the exit callback of a job returns, the instance holds no job
\* handle, whether or not the session is reachable.
C3_HandleReleasedAtExit ==
    [][\A j \in Jobs :
         (jobs[j].st # "done" /\ jobs'[j].st = "done") => installCmd' = 0
      ]_vars

\* C4: when Install returns the process-spawn error, status is NotInstalled
\* and no job handle is left; when it returns without error, status is
\* Installing and lastError is empty.
C4_InstallStartOutcome ==
    [][InstallStart =>
         /\ ret'.err = ErrProcessStart =>
               (sdk'.Status = SdkStatusNotInstalled /\ installCmd' = 0)
         /\ ret'.err = NoErr =>
               (sdk'.Status = SdkStatusInstalling /\ sdk'.LastError = "")
      ]_vars

\* C5 as stated: once the exit callback of a job has run, the events of the
\* job contain exactly one terminal event, it is the last one, and at most
\* one final flush precedes it.
C5_ExactlyOneTerminal ==
    \A j \in Jobs :
        Exited(j) =>
            LET es == EventsOf(j)
                ts == TerminalsOf(j)
            IN  /\ Cardinality(ts) = 1
                /\ \A t \in ts : \A i \in es : i <= t
                /\ Cardinality(FinalFlushesOf(j)) <= 1

\* C5 amended: the events of a job contain at most one terminal event,
\* exactly one if the session was reachable when the exit callback ran and
\* none before that or otherwise; a terminal event is the last event of the
\* job, and the only final flush there can be is the event of the job right
\* before the terminal event.
C5_AtMostOneTerminal ==
    \A j \in Jobs :
        LET es == EventsOf(j)
            ts == TerminalsOf(j)
            fs == FinalFlushesOf(j)
        IN  /\ Cardinality(ts) <= 1
            /\ (ts # {}) <=> (Exited(j) /\ jobs[j].sock)
            /\ \A t \in ts : \A i \in es : i <= t
            /\ Cardinality(fs) <= 1
            /\ \A f \in fs : \E t \in ts :
                 f < t /\ \A i \in es : ~(f < i /\ i < t)

\* a job whose exit callback emitted a final flush and the terminal event
C5_Witness ==
    \E j \in Jobs :
        /\ Exited(j)
        /\ Cardinality(EventsOf(j)) >= 2
        /\ FinalFlushesOf(j) # {}
        /\ TerminalsOf(j) # {}

\* the final flush of job j delivered all the stdout of the job, right
\* before the terminal event
FlushDelivered(j) ==
    \E i \in 1..(Len(events) - 1) :
        /\ events[i].CmdID = jobs[j].cmdID
        /\ ~events[i].Exited
        /\ events[i].Progress = 50
        /\ events[i].Stdout = Chunk(j, "stdout", 0, jobs[j].nOut)
        /\ events[i].Stderr = <<>>
        /\ events[i + 1].CmdID = jobs[j].cmdID
        /\ events[i + 1].Exited

\* a job that wrote some stdout, less than the threshold, and no stderr
SmallOutput(j) ==
    jobs[j].nErr = 0 /\ jobs[j].nOut > 0 /\ jobs[j].nOut < SizeBufStdout

FailureReported(j) ==
    \E i \in TerminalsOf(j) : events[i].Code # 0 \/ events[i].Error # ""

\* C7 as stated: once the exit callback of a job that was running when
\* AbortInstallRemove was called has run, the terminal event of the job has
\* been emitted and reports a non-success exit.
C7_AbortedJobReportsFailure ==
    \A j \in Jobs :
        (jobs[j].aborted = "running" /\ Exited(j)) => FailureReported(j)

\* C7 amended: once the exit callback of a job that received the SIGKILL of
\* AbortInstallRemove has run with the session reachable, the terminal event
\* of the job has been emitted: it carries the exit code, a non-empty error
\* and the status NotInstalled.
C7_KilledJobReportsFailure ==
    \A j \in Jobs :
        (jobs[j].killed /\ Exited(j) /\ jobs[j].sock) =>
            LET ts == TerminalsOf(j)
            IN  /\ ts # {}
                /\ \A i \in ts :
                     /\ events[i].Code = jobs[j].code
                     /\ events[i].Error # ""
                     /\ events[i].Code # 0 \/ jobs[j].err # NoErr
                     /\ events[i].Sdk.Status = SdkStatusNotInstalled

\* a killed job whose exit callback ran with the session reachable
C7_Witness ==
    \E j \in Jobs :
        /\ jobs[j].killed /\ Exited(j) /\ jobs[j].sock
        /\ FailureReported(j)

\* C8: when AbortInstallRemove and the exit callback of the job it found
\* have both completed, the status is the one the exit callback derived from
\* the exit, and the one the terminal event reports.
C8_AbortDoesNotRaceExit ==
    \A j \in Jobs :
        (/\ jobs[j].aborted # "no"
         /\ jobs[j].st = "done" /\ jobs[j].sock
         /\ NumJobs = 1
         /\ pc = "idle" /\ ret.op = "AbortInstallRemove") =>
            /\ sdk.Status = ExitStatus(sdk, jobs[j].code, jobs[j].err).Status
            /\ \A i \in TerminalsOf(j) : events[i].Sdk.Status = sdk.Status

\* C9: Install on an SDK whose status is Installed returns the
\* AlreadyInstalled error and changes neither the record, the handle, the
\* buffers, the command id counter, the jobs nor the events.
C9_InstallOnInstalled ==
    [][(Install /\ sdk.Status = SdkStatusInstalled) =>
         /\ ret' = [op |-> "Install", err |-> ErrAlreadyInstalled]
         /\ pc' = "idle"
         /\ UNCHANGED <<sdk, installCmd, bufStdout, bufStderr, sdkCmdID,
                        jobs, events>>
      ]_vars

\* Install has just refused an SDK that is installed
C9_Witness ==
    /\ ret = [op |-> "Install", err |-> ErrAlreadyInstalled]
    /\ sdk.Status = SdkStatusInstalled
    /\ pc = "idle"

\* C10: an Install call made while a job started by an earlier Install call
\* has not completed returns the InstallInProgress error, creates no job,
\* takes no command id and leaves the buffers alone.
C10_SecondInstallRefused ==
    [][(Install /\ \E j \in Jobs : jobs[j].st = "running") =>
         /\ ret' = [op |-> "Install", err |-> ErrInstallInProgress]
         /\ UNCHANGED <<installCmd, bufStdout, bufStderr, sdkCmdID, jobs>>
      ]_vars

\* C11: Remove on an SDK whose status is not Installed returns the
\* NotInstalled error, AbortInstallRemove on an instance holding no job
\* handle returns the NoInstallInProgress error, and both leave the record,
\* the handle, the buffers, the jobs and the events as they were and return
\* at once: no script is run and no signal is sent.
C11_RefusalsChangeNothing ==
    [][/\ (Remove /\ sdk.Status # SdkStatusInstalled) =>
            /\ ret' = [op |-> "Remove", err |-> ErrNotInstalled]
            /\ pc' = "idle"
            /\ UNCHANGED <<sdk, installCmd, bufStdout, bufStderr, sdkCmdID,
                           jobs, events>>
       /\ (AbortInstallRemove /\ installCmd = 0) =>
            /\ ret' = [op |-> "AbortInstallRemove",
                       err |-> ErrNoInstallInProgress]
            /\ pc' = "idle"
            /\ UNCHANGED <<sdk, installCmd, bufStdout, bufStderr, sdkCmdID,
                           jobs, events>>
      ]_vars

\* Remove has just been refused on an SDK whose installation is running
C11_Witness ==
    /\ ret = [op |-> "Remove", err |-> ErrNotInstalled]
    /\ pc = "idle"
    /\ sdk.Status = SdkStatusInstalling
    /\ installCmd # 0
    /\ jobs[installCmd].st = "running"

\* C12: Remove on an Installed SDK sets the status to Uninstalling and runs
\* the remove script; when Remove returns without error the status is
\* NotInstalled, when it returns the error of the script the status is
\* Uninstalling.
C12_RemoveOutcome ==
    [][/\ (Remove /\ sdk.Status = SdkStatusInstalled) =>
            (sdk'.Status = SdkStatusUninstalling /\ pc' = "remove_script")
       /\ RemoveReturn =>
            /\ ret'.err = NoErr => sdk'.Status = SdkStatusNotInstalled
            /\ ret'.err # NoErr => sdk'.Status = SdkStatusUninstalling
      ]_vars

\* C14: an SDK whose status is Installed has a path and a setup file.
C14_InstalledHasPath ==
    sdk.Status = SdkStatusInstalled => (sdk.Path # "" /\ sdk.SetupFile # "")

\* the edges of the state machine of the status
StatusEdges ==
    { <<SdkStatusNotInstalled, SdkStatusInstalling>>,
      <<SdkStatusInstalling, SdkStatusInstalled>>,
      <<SdkStatusInstalling, SdkStatusNotInstalled>>,
      <<SdkStatusInstalled, SdkStatusUninstalling>>,
      <<SdkStatusUninstalling, SdkStatusNotInstalled>> }

\* C15: every step that changes the status of the SDK follows an edge of
\* the state machine.
C15_StatusFollowsEdges ==
    [][sdk'.Status # sdk.Status => <<sdk.Status, sdk'.Status>> \in StatusEdges
      ]_vars

\* C13: the Install calls that have taken their command id on different
\* instances all have different ids, and the ids were taken in strictly
\* increasing order.
C13_CommandIDsUnique ==
    /\ \A i, k \in Instances :
         (i # k /\ callers[i].pc = "done" /\ callers[k].pc = "done") =>
            callers[i].id # callers[k].id
    /\ \A m, n \in 1..Len(allocated) :
         m < n => allocated[m] < allocated[n]

\* C16: the record stored in an instance NewCrossSDK returned without error
\* has an empty lastError and a status that is set, NotInstalled when the
\* raw record had none.
C16_StoredRecordDefaults ==
    (newSdk.calls > 0 /\ newSdk.err = NoErr) =>
        /\ newSdk.sdk.LastError = ""
        /\ newSdk.sdk.Status # ""
        /\ rawSdk.sdk.Status = "" =>
               newSdk.sdk.Status = SdkStatusNotInstalled

\* C17: the instances created from records of the same name have the same
\* id, whatever the status and the other fields of the records, and the id
\* of an instance is the one derived from its name.
C17_IDFromNameAlone ==
    /\ \A p, q \in seenIDs : p[1] = q[1] => p[3] = q[3]
    /\ (newSdk.calls > 0 /\ newSdk.err = NoErr) =>
          newSdk.sdk.ID = UuidV3(UuidNil, rawSdk.sdk.Name)

\* two records of the same name and of different status were validated,
\* the second with other fields than the records of the list script
C17_Witness ==
    /\ newSdk.calls > 0 /\ newSdk.err = NoErr
    /\ rawSdk.sdk.LastError # ""
    /\ \E p, q \in seenIDs : p[1] = q[1] /\ p[2] # q[2] /\ p[3] = q[3]

\* the install the scan found is the one entry e describes
SameKey(e, inst) ==
    KeyMatches(e, Segment(inst.envFile, 3), Segment(inst.envFile, 4),
               Segment(inst.envFile, 5))

\* the installs found by the scan that entry e of the catalog describes,
\* and those of them whose version file could be read
InstallsOf(e) == {k \in DOMAIN found : SameKey(e, found[k])}
ReadableInstallsOf(e) == {k \in InstallsOf(e) : found[k].hasVersion}

\* the positions of the entries made for installs the catalog does not list
LocalOnly == (Len(catalog) + 1)..Len(sdks)

\* C18 as stated: in the array the script prints, a catalog entry that no
\* install found by the scan matches has status NotInstalled, a catalog
\* entry that an install found by the scan matches has status Installed,
\* and an entry made for an unlisted install has status Installed and a
\* path.
C18_StatusReflectsScan ==
    dumpPc = "printed" =>
        /\ \A i \in DOMAIN catalog :
             IF InstallsOf(catalog[i]) = {}
             THEN sdks[i].status = "Not Installed"
             ELSE sdks[i].status = "Installed"
        /\ \A i \in LocalOnly :
             sdks[i].status = "Installed" /\ sdks[i].path # <<>>

\* C18 amended: the same, where the installs that count are those whose
\* version file could be read; an install without one is ignored.
C18_StatusReflectsReadableInstalls ==
    dumpPc = "printed" =>
        /\ \A i \in DOMAIN catalog :
             IF ReadableInstallsOf(catalog[i]) = {}
             THEN sdks[i].status = "Not Installed"
             ELSE sdks[i].status = "Installed"
        /\ \A i \in LocalOnly :
             sdks[i].status = "Installed" /\ sdks[i].path # <<>>

\* the script printed a catalog entry an install matched, a catalog entry
\* that the file said installed and whose only install has no version file
C18_Witness ==
    /\ dumpPc = "printed"
    /\ \E i \in DOMAIN catalog :
         /\ ReadableInstallsOf(catalog[i]) # {}
         /\ sdks[i].status = "Installed"
    /\ \E i \in DOMAIN catalog :
         /\ catalog[i].status = "Installed"
         /\ InstallsOf(catalog[i]) # {}
         /\ ReadableInstallsOf(catalog[i]) = {}
         /\ sdks[i].status = "Not Installed"

\* the lines of find processed so far that made a new entry: the version
\* file was read and the catalog has no entry of that key
Synthesized ==
    SelectSeq(SubSeq(found, 1, scanned),
              LAMBDA f : f.hasVersion
                         /\ \A i \in DOMAIN catalog : ~SameKey(catalog[i], f))

\* C19: once the catalog is loaded, the array starts with the entries of
\* the catalog, as many and in the same order, followed by one entry for
\* each install that matched no catalog entry, in the order of the scan;
\* an install that matched a catalog entry made no entry.
C19_CatalogOrderKept ==
    dumpPc \in {"scan", "printed"} =>
        /\ Len(sdks) = Len(catalog) + Len(Synthesized)
        /\ \A i \in DOMAIN catalog :
             /\ sdks[i].name = catalog[i].name
             /\ sdks[i].profile = catalog[i].profile
             /\ sdks[i].version = catalog[i].version
             /\ sdks[i].arch = catalog[i].arch
        /\ \A k \in DOMAIN Synthesized :
             /\ sdks[Len(catalog) + k].setupFile = Synthesized[k].envFile
             /\ SameKey(sdks[Len(catalog) + k], Synthesized[k])

\* the script printed two catalog entries, one of them matched by an
\* install, followed by the entry of an install the catalog does not list
C19_Witness ==
    /\ dumpPc = "printed"
    /\ Len(catalog) = 2
    /\ catalog[1].version # catalog[2].version
    /\ Len(Synthesized) = 1
    /\ Len(sdks) = 3
    /\ \E i \in DOMAIN catalog : ReadableInstallsOf(catalog[i]) # {}

\* C20: in the array the script prints, a catalog entry matched by an
\* install whose version file could be read has status Installed, the
\* directory and the setup file of the install, and the date an entry made
\* for the same install would have.
C20_MatchFillsDate ==
    dumpPc = "printed" =>
        \A i \in DOMAIN catalog : \A k \in ReadableInstallsOf(catalog[i]) :
            LET inst == found[k]
                dir == Dirname(inst.envFile)
                new == LocalSDK(catalog[i].profile, catalog[i].version,
                                catalog[i].arch, dir, inst.envFile,
                                SdkDate(inst.stamp))
            IN  /\ sdks[i].status = "Installed"
                /\ sdks[i].path = dir
                /\ sdks[i].setupFile = inst.envFile
                /\ sdks[i].date = SdkDate(inst.stamp)
                /\ sdks[i].date = new.date

\* C21: an output callback that finds the session appends its chunks to
\* the buffers; if the stdout buffer is then longer than its threshold or
\* the stderr buffer longer than its own, it emits one non-terminal event
\* of its job carrying the two buffers and empties them, otherwise it emits
\* nothing and keeps them.  After an output callback neither buffer is
\* longer than its threshold.
C21_OutputBuffering ==
    [][\A j \in Jobs : \A c \in ChunkSizes :
         OutputCB(j, c[1], c[2]) =>
            LET out == bufStdout \o Chunk(j, "stdout", jobs[j].nOut, c[1])
                err == bufStderr \o Chunk(j, "stderr", jobs[j].nErr, c[2])
                last == events'[Len(events')]
            IN  /\ connected =>
                     IF Len(out) > SizeBufStdout \/ Len(err) > SizeBufStderr
                     THEN /\ Len(events') = Len(events) + 1
                          /\ SubSeq(events', 1, Len(events)) = events
                          /\ ~last.Exited
                          /\ last.CmdID = jobs[j].cmdID
                          /\ last.Stdout = out
                          /\ last.Stderr = err
                          /\ bufStdout' = <<>>
                          /\ bufStderr' = <<>>
                     ELSE /\ events' = events
                          /\ bufStdout' = out
                          /\ bufStderr' = err
                /\ Len(bufStdout') <= SizeBufStdout
                /\ Len(bufStderr') <= SizeBufStderr
      ]_vars

\* an output callback has emitted what an earlier one had left in the
\* buffer together with its own chunk
C21_Witness ==
    /\ bufStdout = <<>>
    /\ \E i \in DOMAIN events :
         /\ events[i].Progress = 0
         /\ Len(events[i].Stdout) = SizeBufStdout + 2

\* the elements of a sequence
Range(seq) == {seq[k] : k \in DOMAIN seq}

\* no byte given to an output callback that found no session is in a
\* buffer or in an event
DroppedNowhere ==
    \A j \in Jobs : \A b \in jobs[j].dropped :
        /\ b \notin Range(bufStdout) \cup Range(bufStderr)
        /\ \A i \in DOMAIN events :
             b \notin Range(events[i].Stdout) \cup Range(events[i].Stderr)

\* C22: an output callback that finds no session emits nothing, leaves the
\* buffers, the record and the job handle as they were and its job
\* running; the bytes it was given are in no buffer and in no event, then
\* and later.
C22_UnreachableOutputDropped ==
    [][/\ \A j \in Jobs : \A c \in ChunkSizes :
            (OutputCB(j, c[1], c[2]) /\ ~connected) =>
                /\ UNCHANGED <<events, bufStdout, bufStderr, sdk, installCmd>>
                /\ jobs'[j].st = "running"
                /\ jobs'[j].killed = jobs[j].killed
       /\ DroppedNowhere'
      ]_vars

\* a job lost a chunk while the session was away and a later output
\* callback of the job, the session back, emitted an event
C22_Witness ==
    /\ connected
    /\ \E j \in Jobs :
         /\ jobs[j].dropped # {}
         /\ jobs[j].st = "running"
         /\ \E i \in EventsOf(j) :
              events[i].Progress = 0 /\ events[i].Stdout # <<>>

Producer(b) == b[1]
Rank(b) == b[3]

\* the bytes of a sequence are bytes of job j, in the order job j wrote them
InOrderOf(j, seq) ==
    /\ \A b \in Range(seq) : Producer(b) = j
    /\ \A m, n \in DOMAIN seq : m < n => Rank(seq[m]) < Rank(seq[n])

\* C24: an event carrying the command id of a job contains only bytes that
\* job wrote, in the order it wrote them, and what two events of a job
\* carry of one stream is in that order too: no byte is emitted twice or
\* under the command id of another job.
C24_OutputAttributed ==
    \A j \in Jobs : \A i \in EventsOf(j) :
        /\ InOrderOf(j, events[i].Stdout)
        /\ InOrderOf(j, events[i].Stderr)
        /\ \A k \in EventsOf(j) :
             i < k =>
                /\ \A x \in Range(events[i].Stdout) :
                     \A y \in Range(events[k].Stdout) : Rank(x) < Rank(y)
                /\ \A x \in Range(events[i].Stderr) :
                     \A y \in Range(events[k].Stderr) : Rank(x) < Rank(y)

\* the list without the project of this id, the others kept in order
Without(list, id) == SelectSeq(list, LAMBDA p : p # id)

\* every project of the list has an id of its own
DistinctIDs(list) ==
    \A k, l \in 1..Len(list) : k # l => list[k] # list[l]

\* C25: deleteProject(prj) removes from the project list exactly the
\* project whose id is prj.id, and only once both the server-side and the
\* sync-layer deletions succeeded, whatever other addProject, deleteProject
\* and reload operations completed meanwhile: the call itself, the answer of
\* the server and a failed answer of the sync layer leave the list as it
\* is, and the successful answer of the sync layer, on a list where every
\* id occurs once, leaves the list without prj and with every other project
\* still in place.
C25_DeleteRemovesExactly ==
    [][ /\ \A id \in ProjectIDs : DeleteProject(id) => projects' = projects
        /\ \A r \in Requests, ok \in BOOLEAN :
             /\ DeleteRemoteDone(r, ok) => projects' = projects
             /\ DeleteLocalDone(r, ok) /\ DistinctIDs(projects) =>
                  projects' = IF ok THEN Without(projects, requests[r].id)
                              ELSE projects ]_vars

====
